---------------------------- MODULE Spec2Model ----------------------------
(***************************************************************************)
(* Model of the SyntheticPool blueprint (defi/synthetics/src/lib.rs):      *)
(* staking of SNX collateral, minting and burning of synthetic tokens      *)
(* against a global pool of debt shares, and the collateralization check.  *)
(*                                                                         *)
(* A Decimal is modelled by its raw integer: the value times ONE.  The     *)
(* engine's Decimal has 18 fractional digits; the model keeps the same     *)
(* truncating multiplication and division at a smaller scale.              *)
(* A panic (assert!, panic!, unwrap of None, division by zero, a vault     *)
(* take beyond the balance) aborts the transaction: nothing the call has   *)
(* written so far is kept.                                                 *)
(***************************************************************************)
EXTENDS Integers, FiniteSets, Sequences, TLC

----------------------------------------------------------------------------
(* Bounds of the model *)

\* largest SNX balance, in whole tokens, an account is driven to
MaxStake == 10
\* largest circulating supply, in whole tokens, a synthetic is driven to
MaxSupply == 4
\* number of committed calls explored from construction
MaxSteps == 6

----------------------------------------------------------------------------
(* Decimal arithmetic *)

\* raw value of Decimal 1
ONE == 100

\* integer division rounding toward zero
TruncDiv(a, b) ==
    IF (a >= 0) = (b > 0) THEN (IF a >= 0 THEN a ELSE -a) \div (IF b > 0 THEN b ELSE -b)
    ELSE -((IF a >= 0 THEN a ELSE -a) \div (IF b > 0 THEN b ELSE -b))

\* Decimal * Decimal
DecMul(a, b) == TruncDiv(a * b, ONE)

\* Decimal / Decimal, defined for b # 0 (the code panics on b = 0)
DecDiv(a, b) == TruncDiv(a * ONE, b)

----------------------------------------------------------------------------
(* Inputs *)

UserIds == {"alice", "bob"}
Symbols == {"BTC", "ETH"}
\* resource addresses of the assets the oracle quotes against USD
snx_resource_address == "SNX"
AssetAddrs == {"btc", "eth"}
\* the underlying asset each symbol is registered for
AssetOf(symbol) == IF symbol = "BTC" THEN "btc" ELSE "eth"
OracleAddrs == {snx_resource_address} \cup AssetAddrs
\* the prices the oracle's admin sets: SNX/USD, and an underlying asset/USD
SnxPrices == {ONE, 2 * ONE}
Prices == {0, ONE, 2 * ONE}
PricesOf(a) == IF a = snx_resource_address THEN SnxPrices ELSE Prices
StakeAmounts == {10 * ONE}
UnstakeAmounts == {5 * ONE, 10 * ONE}
\* amounts minted and amounts held by a bucket handed to burn
Amounts == {ONE, 3 * ONE}
\* the resources a bucket handed to burn can be of
BucketResources == {"sBTC", "sETH", snx_resource_address}

\* collateralization_threshold given to instantiate_pool: 1.5
collateralization_threshold == (3 * ONE) \div 2

\* resource address of the global debt share resource
synthetics_global_debt_share_resource_address == "GDS"

----------------------------------------------------------------------------
(* State *)

VARIABLES
    oracle,        \* the price oracle component: asset address -> price in USD
    users,         \* KeyValueStore<ResourceAddress, User>: user id -> [snx, global_debt_share]
    synthetics,    \* HashMap<String, SyntheticToken>
    total_supply,  \* resource managers: resource address -> total supply
    last,          \* the call just made and what it did
    steps,         \* number of calls made so far
    ever_minted    \* some call to mint has committed

vars == <<oracle, users, synthetics, total_supply, last, steps, ever_minted>>
pool == <<users, synthetics, total_supply>>

EmptyMap == [x \in {} |-> 0]

MapPut(m, k, v) == [x \in DOMAIN m \cup {k} |-> IF x = k THEN v ELSE m[x]]

\* a call: what was asked, how it ended and, for mint and burn, what it read
Call(op, outcome, user, value, shares, debt_before, supply_before, balance_before) ==
    [op |-> op, outcome |-> outcome, user |-> user, value |-> value,
     shares |-> shares, debt_before |-> debt_before,
     supply_before |-> supply_before, balance_before |-> balance_before]

Failed(op, outcome, user) == Call(op, outcome, user, 0, 0, 0, 0, 0)

NoCall == Failed("none", "ok", "")

\* the call as recorded in last: prev is the call before it when both are
\* committed mints or burns, so that two consecutive calls can be compared
Recorded(call, prev) == [call |-> call, prev |-> prev]

Follows(call) ==
    Recorded(call,
             IF /\ call.op \in {"mint", "burn"} /\ call.outcome = "ok"
                /\ last.call.op = "mint" /\ last.call.outcome = "ok"
             THEN last.call ELSE NoCall)

Init ==
    /\ oracle = EmptyMap
    /\ users = EmptyMap
    /\ synthetics = EmptyMap
    /\ total_supply = [r \in {synthetics_global_debt_share_resource_address} |-> 0]
    /\ last = Recorded(Failed("instantiate_pool", "ok", ""), NoCall)
    /\ steps = 0
    /\ ever_minted = FALSE

----------------------------------------------------------------------------
(* Oracle *)

\* PriceOracleComponentTarget::update_price, called by the oracle's admin
UpdatePrice(a, p) ==
    /\ steps < MaxSteps
    /\ (IF a \in DOMAIN oracle THEN oracle[a] # p ELSE TRUE)
    /\ oracle' = MapPut(oracle, a, p)
    /\ last' = Follows(Failed("update_price", "ok", ""))
    /\ UNCHANGED <<steps, ever_minted>>
    /\ UNCHANGED pool

\* Option<Decimal> returned by get_price is Some
HasPrice(a) == a \in DOMAIN oracle

----------------------------------------------------------------------------
(* Transaction outcome *)

\* mutant: the writes made before the panic are kept
CommitPartial(r) ==
    /\ users' = r.users
    /\ synthetics' = r.synthetics
    /\ total_supply' = r.total_supply

\* a call that panics leaves the component and the resources as they were
Commit(r) ==
    IF r.err = "ok"
    THEN /\ users' = r.users
         /\ synthetics' = r.synthetics
         /\ total_supply' = r.total_supply
    ELSE UNCHANGED pool

Result(err, us, syn, sup) ==
    [err |-> err, users |-> us, synthetics |-> syn, total_supply |-> sup]

----------------------------------------------------------------------------
(* add_synthetic_token *)

SyntheticToken(asset_symbol, asset_address, token_resource_address) ==
    [asset_symbol |-> asset_symbol, asset_address |-> asset_address,
     token_resource_address |-> token_resource_address]

\* the address of the resource the next registration creates
NewTokenAddress(asset_symbol) == "s" \o asset_symbol

\* mutant: a registration under a symbol already there replaces the asset
add_synthetic_token_overwriting(asset_symbol, asset_address) ==
    LET token_resource_address == NewTokenAddress(asset_symbol)
    IN Result("ok", users,
              MapPut(synthetics, asset_symbol,
                     SyntheticToken(asset_symbol, asset_address, token_resource_address)),
              MapPut(total_supply, token_resource_address, 0))

add_synthetic_token(asset_symbol, asset_address) ==
    IF asset_symbol \in DOMAIN synthetics
    THEN Result("Asset already exist", users, synthetics, total_supply)
    ELSE LET token_resource_address == NewTokenAddress(asset_symbol)
         IN Result("ok", users,
                   MapPut(synthetics, asset_symbol,
                          SyntheticToken(asset_symbol, asset_address, token_resource_address)),
                   MapPut(total_supply, token_resource_address, 0))

AddSyntheticToken(asset_symbol, asset_address) ==
    /\ steps < MaxSteps
    /\ LET r == add_synthetic_token(asset_symbol, asset_address)
       IN /\ Commit(r)
          /\ last' = Follows(Failed("add_synthetic_token", r.err, ""))
          /\ steps' = IF r.err = "ok" THEN steps + 1 ELSE steps
    /\ UNCHANGED <<oracle, ever_minted>>

----------------------------------------------------------------------------
(* Users *)

User_new == [snx |-> 0, global_debt_share |-> 0]

\* mutant: the lookup creates a missing user whatever the flag says
get_user_or_create(us, user_id, create_if_missing) ==
    IF user_id \in DOMAIN us THEN us
    ELSE MapPut(us, user_id, User_new)

\* get_user: the users after the lookup; the lookup panics when UserFound is false
get_user(us, user_id, create_if_missing) ==
    IF user_id \in DOMAIN us THEN us
    ELSE IF create_if_missing THEN MapPut(us, user_id, User_new)
    ELSE us

UserFound(us, user_id, create_if_missing) ==
    user_id \in DOMAIN get_user(us, user_id, create_if_missing)

\* mutant: a take beyond the balance is not refused
CanTakeAny(balance, amount) == TRUE

\* Vault::take panics when the vault holds less than the amount
CanTake(balance, amount) == amount <= balance

\* Vault::put and Vault::take on a user's vault
PutSnx(us, user_id, amount) == [us EXCEPT ![user_id].snx = @ + amount]
TakeSnx(us, user_id, amount) == [us EXCEPT ![user_id].snx = @ - amount]
\* mutant: the minted shares are not put into the user's vault
PutSharesDropped(us, user_id, amount) == us

PutShares(us, user_id, amount) == [us EXCEPT ![user_id].global_debt_share = @ + amount]
\* mutant: the shares are taken from the collateral vault
TakeSharesFromSnx(us, user_id, amount) == [us EXCEPT ![user_id].snx = @ - amount]

TakeShares(us, user_id, amount) == [us EXCEPT ![user_id].global_debt_share = @ - amount]

\* ResourceManager::mint and Bucket::burn, authorized by the mint badge
MintResource(sup, resource_address, amount) == [sup EXCEPT ![resource_address] = @ + amount]
BurnResource(sup, resource_address, amount) == [sup EXCEPT ![resource_address] = @ - amount]

----------------------------------------------------------------------------
(* stake *)

stake(user_id, stake_in_snx) ==
    LET us == get_user(users, user_id, TRUE)
    IN Result("ok", PutSnx(us, user_id, stake_in_snx), synthetics, total_supply)

Stake(user_id, stake_in_snx) ==
    /\ steps < MaxSteps
    /\ (IF user_id \in DOMAIN users THEN users[user_id].snx ELSE 0) + stake_in_snx
          <= MaxStake * ONE
    /\ LET r == stake(user_id, stake_in_snx)
       IN /\ Commit(r)
          /\ last' = Follows(Failed("stake", r.err, user_id))
          /\ steps' = IF r.err = "ok" THEN steps + 1 ELSE steps
    /\ UNCHANGED <<oracle, ever_minted>>

----------------------------------------------------------------------------
(* Prices and the global debt *)

\* get_asset_price panics when PriceKnown is false
PriceKnown(asset_address) == HasPrice(asset_address)

get_asset_price(asset_address) == oracle[asset_address]

get_snx_price == get_asset_price(snx_resource_address)

RECURSIVE SumDebt(_, _, _)
SumDebt(syms, syn, sup) ==
    IF syms = {} THEN 0
    ELSE LET s == CHOOSE x \in syms : TRUE
         IN DecMul(get_asset_price(syn[s].asset_address),
                   sup[syn[s].token_resource_address])
            + SumDebt(syms \ {s}, syn, sup)

\* get_total_global_debt panics when DebtKnown is false
DebtKnown(syn) == \A s \in DOMAIN syn : PriceKnown(syn[s].asset_address)

get_total_global_debt(syn, sup) == SumDebt(DOMAIN syn, syn, sup)

----------------------------------------------------------------------------
(* User::check_collateralization_ratio *)

\* the divisor of the ratio: global_debt / total_supply * global_debt_share
UserDebt(user, global_debt, supply) ==
    DecMul(DecDiv(global_debt, supply), user.global_debt_share)

\* mutant: an account without debt shares is not exempted from the ratio
check_ratio_without_exemption(user, snx_price, global_debt, supply, threshold) ==
    IF supply # 0
    THEN IF UserDebt(user, global_debt, supply) = 0
         THEN "Division by zero"
         ELSE IF DecDiv(DecMul(user.snx, snx_price),
                        UserDebt(user, global_debt, supply)) >= threshold
              THEN "ok"
              ELSE "Under collateralized!"
    ELSE "ok"

check_collateralization_ratio(user, snx_price, global_debt, supply, threshold) ==
    IF supply # 0 /\ user.global_debt_share # 0
    THEN IF UserDebt(user, global_debt, supply) = 0
         THEN "Division by zero"
         ELSE IF DecDiv(DecMul(user.snx, snx_price),
                        UserDebt(user, global_debt, supply)) >= threshold
              THEN "ok"
              ELSE "Under collateralized!"
    ELSE "ok"

\* mutant: the prices are read only when the account holds debt shares
CheckUserLazy(us, syn, sup, user_id) ==
    IF us[user_id].global_debt_share = 0 THEN "ok"
    ELSE IF ~PriceKnown(snx_resource_address) \/ ~DebtKnown(syn)
    THEN "Failed to obtain price"
    ELSE check_collateralization_ratio(
             us[user_id], get_snx_price, get_total_global_debt(syn, sup),
             sup[synthetics_global_debt_share_resource_address],
             collateralization_threshold)

\* the arguments of the check are read first: both price reads can panic
CheckUser(us, syn, sup, user_id) ==
    IF ~PriceKnown(snx_resource_address) \/ ~DebtKnown(syn)
    THEN "Failed to obtain price"
    ELSE check_collateralization_ratio(
             us[user_id], get_snx_price, get_total_global_debt(syn, sup),
             sup[synthetics_global_debt_share_resource_address],
             collateralization_threshold)

----------------------------------------------------------------------------
(* unstake *)

unstake(user_id, amount) ==
    IF ~UserFound(users, user_id, FALSE)
    THEN Result("User not found", users, synthetics, total_supply)
    ELSE IF ~CanTake(get_user(users, user_id, FALSE)[user_id].snx, amount)
    THEN Result("Insufficient balance", users, synthetics, total_supply)
    ELSE LET us == TakeSnx(get_user(users, user_id, FALSE), user_id, amount)
         IN Result(CheckUser(us, synthetics, total_supply, user_id),
                   us, synthetics, total_supply)

Unstake(user_id, amount) ==
    /\ steps < MaxSteps
    /\ LET r == unstake(user_id, amount)
       IN /\ Commit(r)
          /\ last' = Follows(Failed("unstake", r.err, IF r.err = "ok" THEN user_id ELSE ""))
          /\ steps' = IF r.err = "ok" THEN steps + 1 ELSE steps
    /\ UNCHANGED <<oracle, ever_minted>>

----------------------------------------------------------------------------
(* mint *)

\* stands for the panic of a Decimal division by zero
ShareDivByZero == 0 - 1

\* mutant: the bootstrap mint follows the value minted
SharesToMintByValue(global_debt, new_debt, supply) ==
    IF global_debt = 0 THEN new_debt
    ELSE IF supply = 0 THEN ShareDivByZero
    ELSE IF DecDiv(global_debt, supply) = 0 THEN ShareDivByZero
    ELSE DecDiv(new_debt, DecDiv(global_debt, supply))

\* mutant: the proportional mint divides by shares per debt instead of debt
\* per share
SharesToMintInverted(global_debt, new_debt, supply) ==
    IF global_debt = 0 THEN 100 * ONE
    ELSE IF supply = 0 THEN ShareDivByZero
    ELSE IF DecDiv(supply, global_debt) = 0 THEN ShareDivByZero
    ELSE DecDiv(new_debt, DecDiv(supply, global_debt))

\* the amount of debt shares minted: the bootstrap 100 when the global debt
\* is zero, else new_debt / (global_debt / total_supply)
SharesToMint(global_debt, new_debt, supply) ==
    IF global_debt = 0 THEN 100 * ONE
    ELSE IF supply = 0 THEN ShareDivByZero
    ELSE IF DecDiv(global_debt, supply) = 0 THEN ShareDivByZero
    ELSE DecDiv(new_debt, DecDiv(global_debt, supply))

mint(user_id, amount, symbol) ==
    IF ~UserFound(users, user_id, FALSE)
    THEN Result("User not found", users, synthetics, total_supply)
    ELSE IF symbol \notin DOMAIN synthetics
    THEN Result("Unknown asset", users, synthetics, total_supply)
    ELSE IF ~DebtKnown(synthetics)
    THEN Result("Failed to obtain price", users, synthetics, total_supply)
    ELSE
      LET synth == synthetics[symbol]
          gds == synthetics_global_debt_share_resource_address
          global_debt == get_total_global_debt(synthetics, total_supply)
          new_debt == DecMul(get_asset_price(synth.asset_address), amount)
          shares == SharesToMint(global_debt, new_debt, total_supply[gds])
      IN IF shares = ShareDivByZero
         THEN Result("Division by zero", users, synthetics, total_supply)
         ELSE
           LET us == PutShares(get_user(users, user_id, FALSE), user_id, shares)
               sup == MintResource(MintResource(total_supply, gds, shares),
                                   synth.token_resource_address, amount)
           IN Result(CheckUser(us, synthetics, sup, user_id), us, synthetics, sup)

\* what a call to mint reads before it writes: <<new_debt, shares, global_debt>>
MintReads(user_id, amount, symbol) ==
    LET synth == synthetics[symbol]
        global_debt == get_total_global_debt(synthetics, total_supply)
        new_debt == DecMul(get_asset_price(synth.asset_address), amount)
    IN Call("mint", "ok", user_id, new_debt,
            SharesToMint(global_debt, new_debt,
                         total_supply[synthetics_global_debt_share_resource_address]),
            global_debt,
            total_supply[synthetics_global_debt_share_resource_address],
            users[user_id].global_debt_share)

Mint(user_id, amount, symbol) ==
    /\ steps < MaxSteps
    /\ (IF symbol \in DOMAIN synthetics
        THEN total_supply[synthetics[symbol].token_resource_address] + amount
                 <= MaxSupply * ONE
        ELSE TRUE)
    /\ LET r == mint(user_id, amount, symbol)
       IN /\ Commit(r)
          /\ last' = Follows(IF r.err = "ok" THEN MintReads(user_id, amount, symbol)
                             ELSE Failed("mint", r.err, ""))
          /\ steps' = IF r.err = "ok" THEN steps + 1 ELSE steps
          /\ ever_minted' = (ever_minted \/ r.err = "ok")
    /\ UNCHANGED oracle

----------------------------------------------------------------------------
(* burn *)

\* the registered synthetic whose token is the bucket's resource
SynthOfToken(resource_address) ==
    {s \in DOMAIN synthetics : synthetics[s].token_resource_address = resource_address}

\* mutant: the shares to burn are computed as mint computes the shares to mint
SharesToBurnAsMint(global_debt, debt_to_remove, supply) ==
    IF global_debt = 0 THEN ShareDivByZero
    ELSE IF supply = 0 THEN 0
    ELSE IF DecDiv(global_debt, supply) = 0 THEN supply
    ELSE DecDiv(debt_to_remove, DecDiv(global_debt, supply))

\* mutant: a zero global debt is guarded and no share is burned
SharesToBurnGuarded(global_debt, debt_to_remove, supply) ==
    IF global_debt = 0 THEN 0
    ELSE DecDiv(DecMul(supply, debt_to_remove), global_debt)

\* the amount of debt shares taken: total_supply * debt_to_remove / global_debt
SharesToBurn(global_debt, debt_to_remove, supply) ==
    IF global_debt = 0 THEN ShareDivByZero
    ELSE DecDiv(DecMul(supply, debt_to_remove), global_debt)

burn(user_id, bucket_resource, bucket_amount) ==
    IF ~UserFound(users, user_id, FALSE)
    THEN Result("User not found", users, synthetics, total_supply)
    ELSE IF SynthOfToken(bucket_resource) = {}
    THEN Result("Unknown asset", users, synthetics, total_supply)
    ELSE IF ~DebtKnown(synthetics)
    THEN Result("Failed to obtain price", users, synthetics, total_supply)
    ELSE
      LET synth == synthetics[CHOOSE s \in SynthOfToken(bucket_resource) : TRUE]
          gds == synthetics_global_debt_share_resource_address
          global_debt == get_total_global_debt(synthetics, total_supply)
          debt_to_remove == DecMul(get_asset_price(synth.asset_address), bucket_amount)
      IN   LET shares == SharesToBurn(global_debt, debt_to_remove, total_supply[gds])
           IN IF shares = ShareDivByZero
              THEN Result("Division by zero", users, synthetics, total_supply)
              ELSE IF ~CanTake(get_user(users, user_id, FALSE)[user_id].global_debt_share,
                               shares)
              THEN Result("Insufficient balance", users, synthetics, total_supply)
              ELSE Result("ok",
                     TakeShares(get_user(users, user_id, FALSE), user_id, shares),
                     synthetics,
                     BurnResource(BurnResource(total_supply, gds, shares),
                                  bucket_resource, bucket_amount))

BurnReads(user_id, bucket_resource, bucket_amount) ==
    LET synth == synthetics[CHOOSE s \in SynthOfToken(bucket_resource) : TRUE]
        global_debt == get_total_global_debt(synthetics, total_supply)
        debt_to_remove == DecMul(get_asset_price(synth.asset_address), bucket_amount)
    IN Call("burn", "ok", user_id, debt_to_remove,
            SharesToBurn(global_debt, debt_to_remove,
                         total_supply[synthetics_global_debt_share_resource_address]),
            global_debt,
            total_supply[synthetics_global_debt_share_resource_address],
            users[user_id].global_debt_share)

\* a bucket holds tokens that exist: at most the resource's total supply
BucketExists(bucket_resource, bucket_amount) ==
    IF bucket_resource \in DOMAIN total_supply
    THEN bucket_amount <= total_supply[bucket_resource]
    ELSE bucket_resource = snx_resource_address

Burn(user_id, bucket_resource, bucket_amount) ==
    /\ steps < MaxSteps
    /\ BucketExists(bucket_resource, bucket_amount)
    /\ LET r == burn(user_id, bucket_resource, bucket_amount)
       IN /\ Commit(r)
          /\ last' = Follows(IF r.err = "ok"
                             THEN BurnReads(user_id, bucket_resource, bucket_amount)
                             ELSE Failed("burn", r.err, ""))
          /\ steps' = IF r.err = "ok" THEN steps + 1 ELSE steps
    /\ UNCHANGED <<oracle, ever_minted>>

----------------------------------------------------------------------------
(* The queries: they read the pool and the oracle and write nothing *)

\* the public call of get_total_global_debt: the debt, or the panic of a
\* price lookup
GetTotalGlobalDebt ==
    /\ steps < MaxSteps
    /\ LET err == IF DebtKnown(synthetics) THEN "ok" ELSE "Failed to obtain price"
       IN /\ Commit(Result(err, users, synthetics, total_supply))
          /\ last' = Recorded(IF err = "ok"
                              THEN Call("get_total_global_debt", "ok", "",
                                        get_total_global_debt(synthetics, total_supply),
                                        0, 0, 0, 0)
                              ELSE Failed("get_total_global_debt", err, ""),
                              NoCall)
    /\ UNCHANGED <<oracle, steps, ever_minted>>

\* get_user_summary: the lookup of the user, then the SNX price and the debt
get_user_summary(user_id) ==
    IF ~UserFound(users, user_id, FALSE)
    THEN Result("User not found", users, synthetics, total_supply)
    ELSE IF ~PriceKnown(snx_resource_address) \/ ~DebtKnown(synthetics)
    THEN Result("Failed to obtain price", users, synthetics, total_supply)
    ELSE Result("ok", get_user(users, user_id, FALSE), synthetics, total_supply)

GetUserSummary(user_id) ==
    /\ steps < MaxSteps
    /\ LET r == get_user_summary(user_id)
       IN /\ Commit(r)
          /\ last' = Recorded(Failed("get_user_summary", r.err, ""), NoCall)
    /\ UNCHANGED <<oracle, steps, ever_minted>>

----------------------------------------------------------------------------

Next ==
    \/ \E a \in OracleAddrs : \E p \in PricesOf(a) : UpdatePrice(a, p)
    \/ \E s \in Symbols : AddSyntheticToken(s, AssetOf(s))
    \/ \E u \in UserIds, a \in StakeAmounts : Stake(u, a)
    \/ \E u \in UserIds, a \in UnstakeAmounts : Unstake(u, a)
    \/ \E u \in UserIds, a \in Amounts, s \in Symbols : Mint(u, a, s)
    \/ \E u \in UserIds, b \in BucketResources, a \in Amounts : Burn(u, b, a)
    \/ GetTotalGlobalDebt
    \/ \E u \in UserIds : GetUserSummary(u)

Spec == Init /\ [][Next]_vars

\* The same calls with the smallest amount a Decimal can hold among the
\* amounts and a price below one among the prices
DustAmount == 1

DustAmounts == {DustAmount, 3 * ONE}

DustPrices == {ONE \div 2, ONE}

NextDust ==
    \/ UpdatePrice(snx_resource_address, ONE)
    \/ \E a \in AssetAddrs : \E p \in DustPrices : UpdatePrice(a, p)
    \/ \E s \in Symbols : AddSyntheticToken(s, AssetOf(s))
    \/ \E u \in UserIds, a \in StakeAmounts : Stake(u, a)
    \/ \E u \in UserIds : Unstake(u, 10 * ONE)
    \/ \E u \in UserIds, a \in DustAmounts, s \in Symbols : Mint(u, a, s)
    \/ \E u \in UserIds, b \in BucketResources, a \in DustAmounts : Burn(u, b, a)
    \/ GetTotalGlobalDebt
    \/ \E u \in UserIds : GetUserSummary(u)

SpecDust == Init /\ [][NextDust]_vars

\* The pool under prices that never change: the oracle holds a price for
\* every asset before the first call and no price is updated afterwards
InitFixed ==
    /\ \E ps \in SnxPrices : \E pb \in Prices : \E pe \in Prices :
          oracle = [a \in OracleAddrs |->
                      IF a = snx_resource_address THEN ps
                      ELSE IF a = AssetOf("BTC") THEN pb ELSE pe]
    /\ users = EmptyMap
    /\ synthetics = EmptyMap
    /\ total_supply = [r \in {synthetics_global_debt_share_resource_address} |-> 0]
    /\ last = Recorded(Failed("instantiate_pool", "ok", ""), NoCall)
    /\ steps = 0
    /\ ever_minted = FALSE

NextFixed ==
    \/ \E s \in Symbols : AddSyntheticToken(s, AssetOf(s))
    \/ \E u \in UserIds, a \in StakeAmounts : Stake(u, a)
    \/ \E u \in UserIds, a \in UnstakeAmounts : Unstake(u, a)
    \/ \E u \in UserIds, a \in Amounts, s \in Symbols : Mint(u, a, s)
    \/ \E u \in UserIds, b \in BucketResources, a \in Amounts : Burn(u, b, a)
    \/ GetTotalGlobalDebt
    \/ \E u \in UserIds : GetUserSummary(u)

SpecFixed == InitFixed /\ [][NextFixed]_vars

----------------------------------------------------------------------------
(* Properties *)

GDS == synthetics_global_debt_share_resource_address

RECURSIVE SumShares(_, _)
SumShares(ids, us) ==
    IF ids = {} THEN 0
    ELSE LET u == CHOOSE x \in ids : TRUE
         IN us[u].global_debt_share + SumShares(ids \ {u}, us)

\* C1: after every call (committed or aborted, under any price change) the
\* total supply of the debt share resource equals the sum of the accounts'
\* debt share balances.
C1_ShareConservation == total_supply[GDS] = SumShares(DOMAIN users, users)

\* both accounts hold shares and a burn has just removed some
C1_Witness ==
    /\ last.call.op = "burn" /\ last.call.outcome = "ok" /\ last.call.shares > 0
    /\ \A u \in UserIds : u \in DOMAIN users /\ users[u].global_debt_share > 0

\* C3: a call that fails leaves every account's balances, every total
\* supply and the registry as they were before the call.
C3_FailureAtomic == [][last'.call.outcome # "ok" => pool' = pool]_vars

\* a mint rejected by the check it runs after minting the shares and tokens
C3_Witness ==
    /\ last.call.op = "mint" /\ last.call.outcome = "Under collateralized!"
    /\ total_supply[GDS] > 0

ImpliedDebt(user, global_debt, supply) ==
    IF supply = 0 THEN 0
    ELSE DecDiv(DecMul(global_debt, user.global_debt_share), supply)

\* the ratio the claim states, at the current prices
StatedRatioHolds(user) ==
    LET debt == ImpliedDebt(user, get_total_global_debt(synthetics, total_supply),
                            total_supply[GDS])
    IN \/ user.global_debt_share = 0
       \/ debt = 0
       \/ DecDiv(DecMul(user.snx, get_snx_price), debt) >= collateralization_threshold

\* C2: a mint or unstake commits only if, in the state it leaves, the acting
\* account holds no debt shares or its collateral value divided by
\* global_debt x debt_share_balance / total_share_supply is at least the
\* threshold.
C2_SolvencyGate ==
    (last.call.op \in {"mint", "unstake"} /\ last.call.outcome = "ok")
        => StatedRatioHolds(users[last.call.user])

\* a committed mint made on the proportional branch
ProportionalMint(call) ==
    /\ call.op = "mint" /\ call.outcome = "ok"
    /\ call.supply_before # 0 /\ call.debt_before # 0

\* C5: a mint of value V made when the global debt is D and the share supply
\* is S # 0 credits the minter V x S / D debt shares, truncated.
C5_ProportionalMint ==
    ProportionalMint(last.call)
        => users[last.call.user].global_debt_share - last.call.balance_before
               = DecDiv(DecMul(last.call.value, last.call.supply_before), last.call.debt_before)

\* a committed mint followed at once by a committed mint of the same value
SecondMintOfSameValue ==
    /\ last.call.op = "mint" /\ last.prev.op = "mint"
    /\ last.call.value = last.prev.value

Abs(x) == IF x >= 0 THEN x ELSE -x

\* a committed mint followed at once by a committed burn, by the same
\* account, of synthetic tokens of the value minted
BurnOfMintedValue ==
    /\ last.call.op = "burn" /\ last.prev.op = "mint"
    /\ last.call.user = last.prev.user
    /\ last.call.value = last.prev.value

\* C7: after a mint of value V and an immediate burn of value V by the same
\* account, the account's debt share balance and the share supply are back at
\* their values before the mint, up to one unit in the last place.
C7_BurnInverse ==
    BurnOfMintedValue
        => /\ Abs(users[last.call.user].global_debt_share - last.prev.balance_before) <= 1
           /\ Abs(total_supply[GDS] - last.prev.supply_before) <= 1

\* C9: a committed mint leaves the implied debt value (global_debt x
\* debt_share_balance / total_share_supply) of every account other than the
\* minter as it was, up to one unit in the last place.
C9_MintKeepsOthersDebt ==
    [][(last'.call.op = "mint" /\ last'.call.outcome = "ok")
        => \A b \in DOMAIN users \ {last'.call.user} :
              Abs(ImpliedDebt(users'[b], get_total_global_debt(synthetics', total_supply'),
                              total_supply'[GDS])
                  - ImpliedDebt(users[b], get_total_global_debt(synthetics, total_supply),
                                total_supply[GDS])) <= 1]_vars

\* an existing account without debt shares
DebtFree(u) == u \in DOMAIN users /\ users[u].global_debt_share = 0

\* C8 as stated: an existing account whose debt share balance is zero can
\* always withdraw all of its collateral.
C8_ZeroDebtWithdraws ==
    \A u \in UserIds : DebtFree(u) => unstake(u, users[u].snx).err = "ok"

\* C8 amended: it can whenever the oracle has a price for SNX and for the
\* underlying of every registered synthetic; without one the unstake aborts.
C8_ZeroDebtWithdrawsWhenPriced ==
    \A u \in UserIds :
        DebtFree(u) =>
            unstake(u, users[u].snx).err =
                IF PriceKnown(snx_resource_address) /\ DebtKnown(synthetics)
                THEN "ok" ELSE "Failed to obtain price"

\* a debt-free account has just withdrawn all its collateral while the other
\* account owes debt
C8_Witness ==
    /\ last.call.op = "unstake" /\ last.call.outcome = "ok"
    /\ DebtFree(last.call.user) /\ users[last.call.user].snx = 0
    /\ \E b \in DOMAIN users : users[b].global_debt_share > 0
    /\ get_total_global_debt(synthetics, total_supply) > 0

\* C10: a committed burn does not raise the debt value set against any
\* account that holds debt shares after it, the burner included, and so does
\* not lower its collateralization ratio.
C10_BurnKeepsSolvency ==
    [][(last'.call.op = "burn" /\ last'.call.outcome = "ok")
        => \A u \in DOMAIN users :
              users'[u].global_debt_share # 0 =>
                LET before == UserDebt(users[u],
                                  get_total_global_debt(synthetics, total_supply),
                                  total_supply[GDS])
                    after == UserDebt(users'[u],
                                  get_total_global_debt(synthetics', total_supply'),
                                  total_supply'[GDS])
                IN /\ users'[u].snx = users[u].snx
                   /\ after <= before
                   /\ (after # 0 /\ PriceKnown(snx_resource_address)) =>
                         DecDiv(DecMul(users'[u].snx, get_snx_price), after)
                             >= DecDiv(DecMul(users[u].snx, get_snx_price), before)]_vars

\* a burn by one account while the other holds debt shares too
C10_Witness ==
    /\ last.call.op = "burn" /\ last.call.outcome = "ok" /\ last.call.shares > 0
    /\ \A u \in UserIds : u \in DOMAIN users /\ users[u].global_debt_share > 0
    /\ \A u \in UserIds :
          UserDebt(users[u], get_total_global_debt(synthetics, total_supply),
                   total_supply[GDS]) > 0

----------------------------------------------------------------------------

\* the prices a call reads: every call but burn reads the SNX price for the
\* ratio check, and every call reads the price of each registered asset
\* for the global debt (the minted or burned asset is one of them)
PricesRead(op) ==
    IF op \in {"unstake", "mint", "get_user_summary"}
    THEN PriceKnown(snx_resource_address) /\ DebtKnown(synthetics)
    ELSE DebtKnown(synthetics)

\* C11: a call to unstake, mint, burn or a query that reads a price the
\* oracle does not have aborts: with a price missing no input makes the
\* call complete, and the call just completed had every price it read.
C11_MissingPriceFatal ==
    /\ \A u \in UserIds :
          /\ \A a \in UnstakeAmounts :
                unstake(u, a).err = "ok" => PricesRead("unstake")
          /\ \A a \in Amounts, sym \in Symbols :
                mint(u, a, sym).err = "ok" => PricesRead("mint")
          /\ \A a \in Amounts, b \in BucketResources :
                burn(u, b, a).err = "ok" => PricesRead("burn")
          /\ get_user_summary(u).err = "ok" => PricesRead("get_user_summary")
    /\ (/\ last.call.outcome = "ok"
        /\ last.call.op \in {"unstake", "mint", "burn", "get_user_summary",
                              "get_total_global_debt"})
          => PricesRead(last.call.op)

\* a mint aborted on the price of a registered asset while the SNX price
\* is there, and a debt query aborted with it
C11_Witness ==
    /\ last.call.op \in {"mint", "get_total_global_debt"}
    /\ last.call.outcome = "Failed to obtain price"
    /\ PriceKnown(snx_resource_address)
    /\ \E u \in DOMAIN users : users[u].snx > 0
    /\ \E sym \in DOMAIN synthetics :
          /\ ~PriceKnown(synthetics[sym].asset_address)
          /\ \E other \in DOMAIN synthetics :
                PriceKnown(synthetics[other].asset_address)

----------------------------------------------------------------------------

\* C12: the share supply, every collateral balance and every debt share
\* balance are never negative; an unstake of more than the account's
\* collateral is rejected, and a burn that computes more shares than the
\* account holds is rejected: a committed burn takes exactly the shares it
\* computed, not a clamped amount.
C12_NonNegativeBalances ==
    /\ total_supply[GDS] >= 0
    /\ \A u \in DOMAIN users :
          /\ users[u].snx >= 0
          /\ users[u].global_debt_share >= 0
          /\ \A a \in UnstakeAmounts :
                a > users[u].snx => unstake(u, a).err = "Insufficient balance"
          /\ \A b \in BucketResources, a \in Amounts :
                (/\ SynthOfToken(b) # {} /\ DebtKnown(synthetics)
                 /\ get_total_global_debt(synthetics, total_supply) # 0)
                  => LET shares == BurnReads(u, b, a).shares
                     IN IF shares > users[u].global_debt_share
                        THEN burn(u, b, a).err = "Insufficient balance"
                        ELSE /\ burn(u, b, a).err = "ok"
                             /\ burn(u, b, a).users[u].global_debt_share
                                   = users[u].global_debt_share - shares

\* a burn rejected because it computes more shares than the burner holds,
\* while the burner does hold some
C12_Witness ==
    /\ last.call.op = "burn" /\ last.call.outcome = "Insufficient balance"
    /\ \E u \in DOMAIN users :
          /\ users[u].global_debt_share > 0
          /\ \E b \in BucketResources, a \in Amounts :
                /\ BucketExists(b, a)
                /\ burn(u, b, a).err = "Insufficient balance"
                /\ BurnReads(u, b, a).shares > users[u].global_debt_share

----------------------------------------------------------------------------

\* C13 as stated: the share supply is zero exactly when no mint has ever
\* committed.
C13_PreBootstrapEquivalence ==
    (total_supply[GDS] = 0) <=> ~ever_minted

\* C13 amended: while no mint has ever committed the share supply is zero,
\* and a mint that commits leaves it positive; the supply is zero again
\* once every share has been burned.
C13_ZeroSupplyBeforeFirstMint ==
    /\ ~ever_minted => total_supply[GDS] = 0
    /\ (last.call.op = "mint" /\ last.call.outcome = "ok")
          => (ever_minted /\ total_supply[GDS] > 0)

\* no mint has committed yet although one was tried and rejected by the
\* ratio check, after it had minted its shares
C13_Witness ==
    /\ ~ever_minted
    /\ last.call.op = "mint" /\ last.call.outcome = "Under collateralized!"
    /\ total_supply[GDS] = 0

----------------------------------------------------------------------------

\* each symbol is the key of the one asset that carries it, no two assets
\* share a token, and a registration under a symbol already there fails
\* whatever address it names, with the pool as it was
RegistryUnique ==
    /\ \A sym \in DOMAIN synthetics :
          /\ synthetics[sym].asset_symbol = sym
          /\ \A other \in DOMAIN synthetics :
                synthetics[other].token_resource_address
                    = synthetics[sym].token_resource_address => other = sym
          /\ \A a \in AssetAddrs :
                /\ add_synthetic_token(sym, a).err = "Asset already exist"
                /\ add_synthetic_token(sym, a).synthetics = synthetics
    /\ \A sym \in Symbols \ DOMAIN synthetics, a \in AssetAddrs :
          /\ add_synthetic_token(sym, a).err = "ok"
          /\ add_synthetic_token(sym, a).synthetics[sym].asset_address = a

\* no step removes a registered asset or changes its symbol, its underlying
\* asset or its token
RegistryKept ==
    \A sym \in DOMAIN synthetics :
        sym \in DOMAIN synthetics' /\ synthetics'[sym] = synthetics[sym]

\* C14: a registration under a symbol already registered fails and leaves
\* the registry unchanged; each symbol maps to exactly one asset, and a
\* registered asset is never changed and never removed.
C14_RegistryImmutable == []RegistryUnique /\ [][RegistryKept]_vars

\* a second registration of a symbol was refused while its token circulates
C14_Witness ==
    /\ last.call.op = "add_synthetic_token"
    /\ last.call.outcome = "Asset already exist"
    /\ DOMAIN synthetics = Symbols
    /\ \E sym \in DOMAIN synthetics :
          total_supply[synthetics[sym].token_resource_address] > 0

----------------------------------------------------------------------------

\* the debt shares and the collateral of an account, 0 before it exists
SharesOf(us, u) == IF u \in DOMAIN us THEN us[u].global_debt_share ELSE 0
SnxOf(us, u) == IF u \in DOMAIN us THEN us[u].snx ELSE 0

\* C15: stake, unstake, add_synthetic_token and the queries leave the share
\* supply and every account's debt shares unchanged; a committed mint never
\* lowers the supply and changes the debt shares of the minter only; a
\* committed burn never raises the supply and changes the debt shares of
\* the burner only; neither changes the collateral of any account.
C15_ShareLedgerFrame ==
    [][LET op == last'.call.op
           others == UserIds \ {last'.call.user}
       IN /\ op \in {"stake", "unstake", "add_synthetic_token", "update_price",
                      "get_total_global_debt", "get_user_summary"}
               => /\ total_supply'[GDS] = total_supply[GDS]
                  /\ \A u \in UserIds : SharesOf(users', u) = SharesOf(users, u)
          /\ op \in {"mint", "burn"}
               => /\ \A u \in others : SharesOf(users', u) = SharesOf(users, u)
                  /\ \A u \in UserIds : SnxOf(users', u) = SnxOf(users, u)
                  /\ DOMAIN users' = DOMAIN users
          /\ op = "mint" => total_supply'[GDS] >= total_supply[GDS]
          /\ op = "burn" => total_supply'[GDS] <= total_supply[GDS]]_vars

\* a burn by one account while the other holds debt shares and collateral
C15_Witness ==
    /\ last.call.op = "burn" /\ last.call.outcome = "ok" /\ last.call.shares > 0
    /\ last.prev.op = "mint" /\ last.prev.user # last.call.user
    /\ \A u \in UserIds : u \in DOMAIN users /\ users[u].snx > 0

----------------------------------------------------------------------------

\* a burn that gets as far as the division: the account exists, the bucket
\* holds tokens of a registered synthetic, and every price is there
BurnDivides(u, b, a) ==
    /\ u \in DOMAIN users
    /\ BucketExists(b, a)
    /\ SynthOfToken(b) # {}
    /\ DebtKnown(synthetics)

\* C16 as stated: whenever an existing account calls burn with a bucket of
\* a registered synthetic, the global debt that burn reads is not zero.
C16_NoZeroDivisorAtBurn ==
    \A u \in UserIds, b \in BucketResources, a \in Amounts :
        BurnDivides(u, b, a)
          => get_total_global_debt(synthetics, total_supply) # 0

\* C16 amended: the global debt that burn reads can be zero while tokens
\* circulate; the burn then aborts on the division and changes nothing, and
\* a burn that commits has read a global debt that is not zero.
C16_ZeroDebtAbortsBurn ==
    /\ \A u \in UserIds, b \in BucketResources, a \in Amounts :
          (BurnDivides(u, b, a)
             /\ get_total_global_debt(synthetics, total_supply) = 0)
            => /\ burn(u, b, a).err = "Division by zero"
               /\ burn(u, b, a).users = users
               /\ burn(u, b, a).total_supply = total_supply
    /\ (last.call.op = "burn" /\ last.call.outcome = "ok")
          => last.call.debt_before # 0

\* a burn of circulating tokens aborted on a global debt of zero
C16_Witness ==
    /\ last.call.op = "burn" /\ last.call.outcome = "Division by zero"
    /\ \E u \in UserIds, b \in BucketResources, a \in Amounts :
          /\ BurnDivides(u, b, a)
          /\ users[u].global_debt_share > 0
          /\ get_total_global_debt(synthetics, total_supply) = 0

----------------------------------------------------------------------------

\* for a user without an account unstake, mint, burn and the summary fail
\* on the lookup, whatever their other arguments, and return the pool as
\* it was
NoAccountNoCall ==
    \A u \in UserIds \ DOMAIN users :
        /\ \A a \in UnstakeAmounts :
              /\ unstake(u, a).err = "User not found"
              /\ unstake(u, a).users = users
        /\ \A a \in Amounts, sym \in Symbols :
              /\ mint(u, a, sym).err = "User not found"
              /\ mint(u, a, sym).users = users
              /\ mint(u, a, sym).total_supply = total_supply
        /\ \A a \in Amounts, b \in BucketResources :
              /\ burn(u, b, a).err = "User not found"
              /\ burn(u, b, a).users = users
              /\ burn(u, b, a).total_supply = total_supply
        /\ get_user_summary(u).err = "User not found"
        /\ get_user_summary(u).users = users

\* accounts are never removed, and only a stake adds one: the account of
\* the user who staked
AccountsKept ==
    /\ DOMAIN users \subseteq DOMAIN users'
    /\ DOMAIN users' # DOMAIN users
          => /\ last'.call.op = "stake"
             /\ DOMAIN users' = DOMAIN users \cup {last'.call.user}

\* C17: stake is the only call that creates an account; unstake, mint and
\* burn for a user without an account fail, create none and change
\* nothing; an account once created exists in every later state.
C17_AccountLifecycle == []NoAccountNoCall /\ [][AccountsKept]_vars

\* a mint for a user without an account was refused while another user
\* has one
C17_Witness ==
    /\ last.call.op = "mint" /\ last.call.outcome = "User not found"
    /\ DOMAIN users # {} /\ DOMAIN users # UserIds
    /\ DOMAIN synthetics # {}

----------------------------------------------------------------------------

\* C18: in every reachable state where the global debt can be read it is
\* zero exactly when the share supply is zero, so that the test mint makes
\* (global debt is zero) agrees with a test of the share supply, and no mint
\* divides by a zero debt per share.
C18_BootstrapGuardAgrees ==
    /\ DebtKnown(synthetics)
          => (get_total_global_debt(synthetics, total_supply) = 0
                <=> total_supply[GDS] = 0)
    /\ \A sym \in DOMAIN synthetics, a \in Amounts :
          DebtKnown(synthetics)
            => SharesToMint(get_total_global_debt(synthetics, total_supply),
                            DecMul(get_asset_price(synthetics[sym].asset_address), a),
                            total_supply[GDS]) # ShareDivByZero

----------------------------------------------------------------------------

\* C19: a committed mint of a positive amount of a synthetic with a positive
\* price credits a positive amount of debt shares, so that an account
\* without collateral never commits such a mint.
C19_NoUnbackedMint ==
    \A u \in DOMAIN users, sym \in DOMAIN synthetics, a \in DustAmounts \cup Amounts :
        (/\ mint(u, a, sym).err = "ok"
         /\ a > 0
         /\ get_asset_price(synthetics[sym].asset_address) > 0)
          => /\ MintReads(u, a, sym).shares > 0
             /\ users[u].snx > 0

----------------------------------------------------------------------------

\* the sum of the implied debt values of a set of accounts
RECURSIVE SumImpliedDebt(_)
SumImpliedDebt(ids) ==
    IF ids = {} THEN 0
    ELSE LET u == CHOOSE x \in ids : TRUE
         IN ImpliedDebt(users[u], get_total_global_debt(synthetics, total_supply),
                        total_supply[GDS])
            + SumImpliedDebt(ids \ {u})

\* C20: under prices that never change, after any sequence of calls every
\* account that holds debt shares has a collateral value of at least the
\* threshold times its implied debt value, and the implied debt values of
\* all accounts add up to the global debt (read up to the truncation of
\* one unit in the last place per account).
C20_SolvencyAtFixedPrices ==
    /\ \A u \in DOMAIN users : StatedRatioHolds(users[u])
    /\ total_supply[GDS] # 0
          => LET global_debt == get_total_global_debt(synthetics, total_supply)
             IN /\ SumImpliedDebt(DOMAIN users) <= global_debt
                /\ SumImpliedDebt(DOMAIN users) >= global_debt - Cardinality(DOMAIN users)

=============================================================================
